---- MODULE Spec2Model ----
(***************************************************************************)
(* A model of PyDirMap.py: the FileObject size tree and its rollup, the    *)
(* DirectoryMap treemap layout (draw, get_color) and the pick/timer        *)
(* selection handlers (onpick, ontime).                                    *)
(*                                                                         *)
(* Strings are sequences of one-character strings.  An object reference is *)
(* the object's index in objs; None is 0.  A FileObject's children dict is *)
(* the sequence of its values in insertion order; the key of a value is    *)
(* that value's path (line 38 stores self under self.path, and path is     *)
(* never reassigned).                                                      *)
(*                                                                         *)
(*   objs      the FileObjects created so far, in order of creation        *)
(*   rollups   the calls of rollup() made on the root                      *)
(*   colors    the module-level COLORS dict, shared by every DirectoryMap  *)
(*   views     the DirectoryMaps: root_directory, resolution, minsize,     *)
(*             legend, extension_count, patch_dict, click_list, the axes   *)
(*             title, and the arguments of its calls of squarify           *)
(*   pending   the calls of draw still to be made for the DirectoryMap     *)
(*             under construction (the last of views), first one first     *)
(*   frames    the calls of ontime that wait for the view they opened      *)
(*   browsers  the roots of the DirectoryTrees                             *)
(*   picked    the pick events raised so far                               *)
(*   taken     the click list resolved by the latest tick                  *)
(*   error     the exception that ended the run, "none" if none            *)
(*                                                                         *)
(* An uncaught exception ends the run followed here.                       *)
(***************************************************************************)
EXTENDS Integers, Sequences, FiniteSets, TLC

VARIABLES objs, rollups, colors, views, pending, frames, browsers, picked, taken,
          error

vars == <<objs, rollups, colors, views, pending, frames, browsers, picked, taken,
         error>>

(* ------------------------------ bounds --------------------------------- *)
MaxNodes == 4
MaxSize == 1
MaxRollups == 2
MaxPathLen == 7
LayoutNodes == 4
LayoutSize == 2
MaxResolution == 3
MaxPicks == 2

(* --------------------------- program constants ------------------------- *)
None == 0
DIR == <<"<", "D", "I", "R", ">">>
ExtMaxLen == 5
MB == 1048576
Gray == <<"gray">>
Buttons == {1, 2, 3}
DrillButton == 3
BrowseButton == 2

RECURSIVE SeqSum(_)
SeqSum(s) == IF s = <<>> THEN 0 ELSE Head(s) + SeqSum(Tail(s))

Range(s) == {s[i] : i \in DOMAIN s}

(* ------------------------------ strings -------------------------------- *)
Chars == {".", "a", "B"}

lower_char(c) == IF c = "B" THEN "b" ELSE c

lower(s) == [i \in 1..Len(s) |-> lower_char(s[i])]

reversed(s) == [i \in 1..Len(s) |-> s[Len(s) + 1 - i]]

RECURSIVE find_from(_, _, _)
find_from(s, c, i) ==
    IF i > Len(s) THEN -1
    ELSE IF s[i] = c THEN i - 1
    ELSE find_from(s, c, i + 1)

(* str.find: the 0-based index of the first occurrence, -1 when absent. *)
find(s, c) == find_from(s, c, 1)

(* s[start:] with Python's treatment of a negative start; -0 is 0. *)
slice_from(s, start) ==
    LET n == Len(s)
        b == IF start < 0 THEN (IF n + start < 0 THEN 0 ELSE n + start)
             ELSE (IF start > n THEN n ELSE start)
    IN SubSeq(s, b + 1, n)

(* A bug variant of the extension rule: keeps the '.' in the extension. *)
extension_with_dot(path) ==
    LET dot == find(reversed(path), ".")
    IN IF 0 <= dot /\ dot <= ExtMaxLen
       THEN lower(slice_from(path, -(dot + 1)))
       ELSE DIR

extension_of(path) ==
    LET dot == find(reversed(path), ".")
    IN IF 0 <= dot /\ dot <= ExtMaxLen
       THEN lower(slice_from(path, -dot))
       ELSE DIR

(* ----------------------------- FileObject ------------------------------ *)
RECURSIVE index_of_path(_, _, _, _)
index_of_path(h, kids, path, i) ==
    IF i > Len(kids) THEN 0
    ELSE IF h[kids[i]].path = path THEN i
    ELSE index_of_path(h, kids, path, i + 1)

(* parent.children[path] = self: a new key is appended, an existing key *)
(* keeps its place and gets the new value.                              *)
dict_set(h, kids, path, self) ==
    LET i == index_of_path(h, kids, path, 1)
    IN IF i = 0 THEN Append(kids, self) ELSE [kids EXCEPT ![i] = self]

(* FileObject(path, parent, size): the heap with the new object added. *)
FileObject(h, path, parent, size) ==
    LET self == Len(h) + 1
        new == [path |-> path, size |-> size, parent |-> parent,
                children |-> <<>>, label |-> <<>>,
                extension |-> extension_of(path)]
        h1 == IF parent # None
              THEN [h EXCEPT ![parent].children = dict_set(h, @, path, self)]
              ELSE h
    IN Append(h1, new)

RECURSIVE rollup(_, _)
RECURSIVE rollup_children(_, _, _)
RECURSIVE rollup_children_early(_, _, _)
(* A bug variant of the loop: adds the child's size before rolling the *)
(* child up, so a directory child still counts as 0.                   *)
rollup_children_early(h, self, i) ==
    IF i > Len(h[self].children) THEN h
    ELSE LET child == h[self].children[i]
             h1 == [h EXCEPT ![self].size = @ + h[child].size]
             h2 == rollup(h1, child)
         IN rollup_children_early(h2, self, i + 1)

(* The loop of lines 46-48 from the i-th child on. *)
rollup_children(h, self, i) ==
    IF i > Len(h[self].children) THEN h
    ELSE LET child == h[self].children[i]
             h1 == rollup(h, child)
             h2 == [h1 EXCEPT ![self].size = @ + h1[child].size]
         IN rollup_children(h2, self, i + 1)

rollup(h, self) ==
    LET h1 == rollup_children(h, self, 1)
    IN [h1 EXCEPT ![self].label = <<h1[self].path, h1[self].size \div MB>>]

RECURSIVE top_parent(_, _)
top_parent(h, o) == IF h[o].parent = None THEN o ELSE top_parent(h, h[o].parent)

(* --------------------------- initial values ---------------------------- *)
COLORS == (DIR :> Gray)

NoViews ==
    /\ colors = COLORS
    /\ views = <<>>
    /\ pending = <<>>
    /\ frames = <<>>
    /\ browsers = <<>>
    /\ picked = 0
    /\ taken = <<>>
    /\ error = "none"

(* ------------------------- building the tree --------------------------- *)
TreePaths == {<<"a">>, <<"a", ".", "B">>}

Construct ==
    /\ rollups = 0
    /\ Len(objs) < MaxNodes
    /\ \E path \in TreePaths, size \in 0..MaxSize,
          parent \in (IF objs = <<>> THEN {None} ELSE 1..Len(objs)) :
            objs' = FileObject(objs, path, parent, size)
    /\ UNCHANGED <<rollups, colors, views, pending, frames, browsers, picked, taken, error>>

Aggregate ==
    /\ objs # <<>>
    /\ rollups < MaxRollups
    /\ objs' = rollup(objs, top_parent(objs, Len(objs)))
    /\ rollups' = rollups + 1
    /\ UNCHANGED <<colors, views, pending, frames, browsers, picked, taken, error>>

InitTree == objs = <<>> /\ rollups = 0 /\ NoViews

NextTree == Construct \/ Aggregate

SpecTree == InitTree /\ [][NextTree]_vars

(* ---------------------- the extension of a path ------------------------ *)
RECURSIVE Strings(_)
Strings(n) ==
    IF n = 0 THEN {<<>>}
    ELSE LET S == Strings(n - 1)
         IN S \cup {Append(s, c) : s \in {t \in S : Len(t) = n - 1}, c \in Chars}

ConstructPath ==
    /\ objs = <<>>
    /\ \E path \in Strings(MaxPathLen) : objs' = FileObject(objs, path, None, 0)
    /\ UNCHANGED <<rollups, colors, views, pending, frames, browsers, picked, taken, error>>

NextExt == ConstructPath

SpecExt == InitTree /\ [][NextExt]_vars


(* ------------------------------ numbers -------------------------------- *)
(* Areas are exact fractions <<numerator, denominator>> in lowest terms;  *)
(* the float rounding of lines 107-109 is not modelled.                    *)
RECURSIVE gcd(_, _)
gcd(a, b) == IF b = 0 THEN a ELSE gcd(b, a % b)

frac(n, d) == IF n = 0 THEN <<0, 1>> ELSE <<n \div gcd(n, d), d \div gcd(n, d)>>

frac_add(x, y) == frac(x[1] * y[2] + y[1] * x[2], x[2] * y[2])

frac_leq(x, y) == x[1] * y[2] <= y[1] * x[2]

RECURSIVE frac_sum(_)
frac_sum(s) == IF s = <<>> THEN <<0, 1>> ELSE frac_add(Head(s), frac_sum(Tail(s)))

(* ------------------------------- lists --------------------------------- *)
(* A bug variant of the eligibility test: size > minsize. *)
eligible_strict(h, file, minsize) ==
    SelectSeq(h[file].children, LAMBDA c : h[c].size > minsize)

(* [child for child in file.children.values() if child.size >= minsize] *)
eligible(h, file, minsize) ==
    SelectSeq(h[file].children, LAMBDA c : h[c].size >= minsize)

(* Insert x (with key k) behind every element whose key is >= k: the     *)
(* stable descending order of list.sort(key=..., reverse=True).          *)
RECURSIVE insert_desc(_, _)
insert_desc(sorted, x) ==
    IF sorted = <<>> THEN <<x>>
    ELSE IF Head(sorted)[1] >= x[1] THEN <<Head(sorted)>> \o insert_desc(Tail(sorted), x)
    ELSE <<x>> \o sorted

RECURSIVE sort_pairs(_, _)
sort_pairs(pairs, i) ==
    IF i = 0 THEN <<>>
    ELSE insert_desc(sort_pairs(pairs, i - 1), pairs[i])

(* s sorted by descending key, stable; keys[i] is the key of s[i]. *)
sort_desc(s, keys) ==
    LET pairs == [i \in DOMAIN s |-> <<keys[i], s[i]>>]
        sorted == sort_pairs(pairs, Len(s))
    IN [i \in DOMAIN s |-> sorted[i][2]]

count(s, x) == Cardinality({i \in DOMAIN s : s[i] = x})

(* ----------------------------- DirectoryMap ---------------------------- *)
(* get_random_color: three draws k/256 with k in 0..255, kept as the    *)
(* three k; two of the possible outcomes.                               *)
RandomColors == {<<0, 0, 0>>, <<255, 128, 0>>}

(* A bug variant of get_color's update: a color is drawn on every call. *)
colors_redrawn(cols, extension, rnd) ==
    [e \in DOMAIN cols \cup {extension} |-> IF e = extension THEN rnd ELSE cols[e]]

(* self.colors after get_color(extension), rnd being the color drawn. *)
colors_after_get(cols, extension, rnd) ==
    IF extension \in DOMAIN cols THEN cols
    ELSE [e \in DOMAIN cols \cup {extension} |-> IF e = extension THEN rnd ELSE cols[e]]

dict_put(d, k, x) == [e \in DOMAIN d \cup {k} |-> IF e = k THEN x ELSE d[e]]

(* self.minsize = self.root_directory.size // resolution *)
min_size(size, resolution) == size \div resolution

(* A bug variant of the scaling: against the eligible children's total. *)
scaled_sizes_renormalised(h, children, file, total_size) ==
    LET sum == SeqSum([i \in DOMAIN children |-> h[children[i]].size])
    IN [i \in DOMAIN children |->
          frac(h[children[i]].size * total_size[1], sum * total_size[2])]

(* [child.size / file.size * total_size for child in children] *)
scaled_sizes(h, children, file, total_size) ==
    [i \in DOMAIN children |->
        frac(h[children[i]].size * total_size[1], h[file].size * total_size[2])]

(* squarify.squarify(sizes, x, y, dx, dy): one rectangle per size, in    *)
(* order, each of the area asked for.  A rectangle is kept as its area   *)
(* dx * dy, all that draw reads of it.                                   *)
squarify(sizes) == sizes

(* squarify's contract asks for positive sizes; given a size of 0 it may *)
(* return or raise.                                                      *)
squarify_outcomes(sizes) ==
    IF \A i \in DOMAIN sizes : sizes[i][1] > 0 THEN {"ok"} ELSE {"ok", "raise"}

(* make_legend: the legend's keys by descending count, stable. *)
make_legend(view) ==
    LET keys == [i \in DOMAIN view.legend |-> view.legend[i].extension]
    IN sort_desc(keys, [i \in DOMAIN keys |-> count(view.extension_count, keys[i])])

legend_keys(view) == {view.legend[i].extension : i \in DOMAIN view.legend}

NewView(root, resolution) ==
    [root_directory |-> root, resolution |-> resolution,
     minsize |-> min_size(objs[root].size, resolution),
     legend |-> <<>>, extension_count |-> <<>>, patch_dict |-> <<>>,
     squarify_calls |-> <<>>, legend_order |-> <<>>,
     click_list |-> <<>>, title |-> <<>>]

UnitRect == <<1, 1>>

(* DirectoryMap.__init__ up to the call of draw on the root. *)
DirectoryMapInit(vs, root, resolution) ==
    /\ views' = Append(vs, NewView(root, resolution))
    /\ pending' = <<[file |-> root, rect |-> UnitRect]>>

(* One call of draw: the head of pending is the call, its recursive      *)
(* calls are put in front of the calls still to be made.                 *)
draw ==
    /\ error = "none"
    /\ pending # <<>>
    /\ LET v == Len(views)
           view == views[v]
           file == Head(pending).file
           rect == Head(pending).rect
           extension == objs[file].extension
           children0 == eligible(objs, file, view.minsize)
           children == sort_desc(children0,
                                 [i \in DOMAIN children0 |-> objs[children0[i]].size])
       IN \E rnd \in RandomColors :
          LET cols1 == colors_after_get(colors, extension, rnd)
              color == cols1[extension]
              artist == Len(view.patch_dict) + 1
              fresh == extension \notin legend_keys(view)
              cols2 == IF fresh THEN dict_put(cols1, extension, color) ELSE cols1
              view1 == [view EXCEPT
                          !.extension_count = Append(@, extension),
                          !.patch_dict = Append(@, [rect |-> rect,
                                                    facecolor |-> color,
                                                    file |-> file]),
                          !.legend = IF fresh
                                     THEN Append(@, [extension |-> extension,
                                                     artist |-> artist])
                                     ELSE @]
              done(view2, rest) ==
                  /\ views' = [views EXCEPT ![v] =
                                  IF rest = <<>>
                                  THEN [view2 EXCEPT !.legend_order = make_legend(view2)]
                                  ELSE view2]
                  /\ pending' = rest
                  /\ error' = "none"
              raise(view2, what) ==
                  /\ views' = [views EXCEPT ![v] = view2]
                  /\ pending' = <<>>
                  /\ error' = what
          IN /\ colors' = cols2
             /\ IF children = <<>>
                THEN done(view1, Tail(pending))
                ELSE IF objs[file].size = 0
                THEN raise(view1, "ZeroDivisionError")
                ELSE LET sizes == scaled_sizes(objs, children, file, rect)
                         view2 == [view1 EXCEPT !.squarify_calls =
                                      Append(@, [file |-> file, rect |-> rect,
                                                 children |-> children,
                                                 sizes |-> sizes])]
                         rectangles == squarify(sizes)
                         calls == [i \in DOMAIN children |->
                                      [file |-> children[i], rect |-> rectangles[i]]]
                     IN \E outcome \in squarify_outcomes(sizes) :
                          IF outcome = "ok"
                          THEN done(view2, calls \o Tail(pending))
                          ELSE raise(view2, "ZeroDivisionError in squarify")
    /\ UNCHANGED <<objs, rollups, frames, browsers, picked, taken>>

(* DirectoryTree.make_treemap: a map of the focused object.  The run    *)
(* opens one map from the tree browser; its later maps are drill-downs.  *)
make_treemap ==
    /\ error = "none"
    /\ views = <<>>
    /\ \E focus \in DOMAIN objs, resolution \in 1..MaxResolution :
          DirectoryMapInit(views, focus, resolution)
    /\ UNCHANGED <<objs, rollups, colors, frames, browsers, picked, taken, error>>

(* ------------------------ one layout of a tree ------------------------- *)
IdxChar(i) == <<"1", "2", "3", "4", "5", "6", "7", "8", "9">>[i]

(* The scanned trees: object 1 is the root directory, object i > 1 lies   *)
(* under an earlier object; an object with children is a directory       *)
(* (created with size 0), one without is a file or an empty directory.   *)
RECURSIVE build(_, _, _)
build(h, parents, sizes) ==
    LET i == Len(h) + 1
    IN IF i > Len(parents) THEN h
       ELSE LET isdir == \E j \in DOMAIN parents : parents[j] = i
                name == IF isdir \/ i % 2 = 1 THEN <<IdxChar(i)>>
                        ELSE <<IdxChar(i), ".", "B">>
                path == IF i = 1 THEN <<"a">>
                        ELSE h[parents[i]].path \o <<"\\">> \o name
            IN build(FileObject(h, path, parents[i], IF isdir THEN 0 ELSE sizes[i]),
                     parents, sizes)

Shapes(n) == {p \in [1..n -> 0..(n - 1)] :
                 /\ p[1] = None
                 /\ \A i \in 2..n : 1 <= p[i] /\ p[i] < i}

ScannedTrees ==
    UNION {{rollup(build(<<>>, p, s), 1) : p \in Shapes(n), s \in [1..n -> 0..LayoutSize]}
              : n \in 1..LayoutNodes}

(* main: the scan has returned and the tree browser of the root is open. *)
Scanned ==
    /\ rollups = 1
    /\ colors = COLORS
    /\ views = <<>>
    /\ pending = <<>>
    /\ frames = <<>>
    /\ browsers = <<1>>
    /\ picked = 0
    /\ taken = <<>>
    /\ error = "none"

InitLayout == objs \in ScannedTrees /\ Scanned

NextLayout == make_treemap \/ draw

SpecLayout == InitLayout /\ [][NextLayout]_vars

(* ------------------------- picks and the timer ------------------------- *)
(* onpick: the picked artist is a rectangle of the view's patch_dict.   *)
(* picked counts the pick events of the run, which MaxPicks bounds.     *)
onpick ==
    /\ error = "none"
    /\ pending = <<>>
    /\ picked < MaxPicks
    /\ \E v \in DOMAIN views, button \in Buttons :
        \E artist \in DOMAIN views[v].patch_dict :
          views' = [views EXCEPT ![v].click_list =
                       Append(@, [object |-> views[v].patch_dict[artist].file,
                                  button |-> button])]
    /\ picked' = picked + 1
    /\ UNCHANGED <<objs, rollups, colors, pending, frames, browsers, taken, error>>

(* A bug variant of the choice: the latest pick. *)
latest_pick(q) == q[Len(q)]

(* max(self.click_list, key=lambda x: len(x[0].path)): the first of the *)
(* entries with the longest path.                                       *)
max_by_path_len(q) ==
    LET longest(i) == \A j \in DOMAIN q :
                         Len(objs[q[j].object].path) <= Len(objs[q[i].object].path)
        first == CHOOSE i \in DOMAIN q :
                    longest(i) /\ \A j \in DOMAIN q : longest(j) => i <= j
    IN q[first]

(* A bug variant of the clearing: the list is left as it is. *)
click_list_kept(q) == q

(* self.click_list[:] = [] *)
click_list_cleared(q) == <<>>

(* ontime of view v; taken records the click list the latest tick       *)
(* resolved.  A nested DirectoryMap or DirectoryTree runs its    *)
(* own event loop inside this call: the call stays in frames until that  *)
(* loop ends, and handlers of every view run meanwhile.                 *)
ontime(v) ==
    /\ error = "none"
    /\ pending = <<>>
    /\ v \in DOMAIN views
    /\ IF views[v].click_list = <<>>
       THEN UNCHANGED <<views, pending, frames, browsers, taken>>
       ELSE LET pick == max_by_path_len(views[v].click_list)
                shown == [views EXCEPT
                             ![v].click_list = click_list_cleared(@),
                             ![v].title = objs[pick.object].label]
                frame == [view |-> v, button |-> pick.button]
            IN /\ taken' = views[v].click_list
               /\ IF pick.button = DrillButton
                  THEN /\ DirectoryMapInit(shown, pick.object, views[v].resolution)
                       /\ frames' = Append(frames, frame)
                       /\ UNCHANGED browsers
                  ELSE IF pick.button = BrowseButton
                  THEN /\ browsers' = Append(browsers, pick.object)
                       /\ frames' = Append(frames, frame)
                       /\ views' = shown
                       /\ UNCHANGED pending
                  ELSE /\ views' = shown
                       /\ UNCHANGED <<pending, frames, browsers>>
    /\ UNCHANGED <<objs, rollups, colors, picked, error>>

tick == \E v \in DOMAIN views : ontime(v)

(* The event loop of the innermost nested view ends: the DirectoryMap or *)
(* DirectoryTree call of lines 141-143 returns and so does that ontime.  *)
ontime_return ==
    /\ error = "none"
    /\ pending = <<>>
    /\ frames # <<>>
    /\ frames' = SubSeq(frames, 1, Len(frames) - 1)
    /\ UNCHANGED <<objs, rollups, colors, views, pending, browsers, picked, taken, error>>

(* The tree of the interactive runs: the directory a holds the files    *)
(* a\bb (size 2) and a\.B (size 1), whose paths are equally long.        *)
SelectTree ==
    LET h1 == FileObject(<<>>, <<"a">>, None, 0)
        h2 == FileObject(h1, <<"a", "\\", "b", "b">>, 1, 2)
        h3 == FileObject(h2, <<"a", "\\", ".", "B">>, 1, 1)
    IN rollup(h3, top_parent(h3, 3))

Init == objs = SelectTree /\ Scanned

Next == make_treemap \/ draw \/ onpick \/ tick \/ ontime_return

Spec == Init /\ [][Next]_vars

(* ======================== properties: the tree ========================= *)
(* The objects reachable from o through children. *)
RECURSIVE Subtree(_, _)
Subtree(h, o) ==
    {o} \cup UNION {Subtree(h, c) : c \in Range(h[o].children)}

(* The total size of the leaves (objects without children) below o. *)
RECURSIVE LeafSum(_, _)
LeafSum(h, o) ==
    IF h[o].children = <<>> THEN h[o].size
    ELSE SeqSum([i \in DOMAIN h[o].children |-> LeafSum(h, h[o].children[i])])

ChildSizeSum(h, o) ==
    SeqSum([i \in DOMAIN h[o].children |-> h[h[o].children[i]].size])

InternalCreatedEmpty ==
    \A o \in DOMAIN objs : objs[o].children # <<>> => objs[o].size = 0

SizesAreLeafSums ==
    \A o \in Subtree(objs, 1) :
        /\ objs[o].size = LeafSum(objs, o)
        /\ objs[o].children # <<>> => objs[o].size = ChildSizeSum(objs, o)

(* C1: in a tree whose objects with children were all created with size 0, *)
(* the first rollup() on the root leaves every object of the tree with     *)
(* size equal to the total size of the leaves below it, and so equal to   *)
(* the sum of its children's sizes.                                        *)
C1_RollupSumsLeaves ==
    [][(rollups = 0 /\ rollups' = 1 /\ InternalCreatedEmpty)
          => SizesAreLeafSums']_vars

(* A rolled-up tree of depth 2 whose root totals two leaves of size 1. *)
C1_Witness ==
    /\ rollups = 1
    /\ SizesAreLeafSums
    /\ objs[1].size >= 2
    /\ \E o \in Subtree(objs, 1) :
          /\ objs[o].parent # None
          /\ objs[objs[o].parent].parent # None
          /\ objs[o].size > 0

(* C7: constructing an object under a parent never replaces a child the   *)
(* parent already holds: every entry of every children dict keeps its     *)
(* value (a duplicate path is refused instead).                            *)
C7_RegisteredChildStays ==
    [][\A p \in DOMAIN objs : \A i \in DOMAIN objs[p].children :
          objs'[p].children[i] = objs[p].children[i]]_vars

(* C8: a rollup() on an already rolled-up tree changes no object's size. *)
C8_SecondRollupKeepsSizes ==
    [][(rollups >= 1 /\ rollups' = rollups + 1)
          => \A o \in DOMAIN objs : objs'[o].size = objs[o].size]_vars

(* ======================= properties: the layout ======================== *)
(* View v's call of draw on its root has returned. *)
LaidOut(v) == error = "none" /\ (v < Len(views) \/ pending = <<>>)

TableFiles(v) == [i \in DOMAIN views[v].patch_dict |-> views[v].patch_dict[i].file]

EachOnce(s) == \A i, j \in DOMAIN s : s[i] = s[j] => i = j

IsChild(d) ==
    objs[d].parent # None /\ d \in Range(objs[objs[d].parent].children)

(* d is R, or a child of a shown object with size >= R.size / r exactly. *)
RECURSIVE ShownExact(_, _, _)
ShownExact(R, r, d) ==
    \/ d = R
    \/ /\ IsChild(d)
       /\ objs[d].size * r >= objs[R].size
       /\ ShownExact(R, r, objs[d].parent)

(* d is R, or a child of a shown object with size >= floor(R.size / r): *)
(* size >= floor(x) is size + 1 > x.                                    *)
RECURSIVE ShownFloor(_, _, _)
ShownFloor(R, r, d) ==
    \/ d = R
    \/ /\ IsChild(d)
       /\ (objs[d].size + 1) * r > objs[R].size
       /\ ShownFloor(R, r, objs[d].parent)

PositiveAreas(v) ==
    \A i \in DOMAIN views[v].squarify_calls :
        \A j \in DOMAIN views[v].squarify_calls[i].sizes :
            views[v].squarify_calls[i].sizes[j][1] > 0

(* C2 as stated, for the layouts that handed squarify positive areas     *)
(* only: with T = R.size / r, a finished layout's table holds, each      *)
(* once, R and the descendants d of R such that d and every object       *)
(* between d and R has size >= T.                                        *)
C2_TableExactThreshold ==
    \A v \in DOMAIN views : (LaidOut(v) /\ PositiveAreas(v)) =>
        /\ EachOnce(TableFiles(v))
        /\ Range(TableFiles(v)) =
              {d \in DOMAIN objs :
                  ShownExact(views[v].root_directory, views[v].resolution, d)}

(* C2 amended: the same with T = floor(R.size / r), the integer quotient. *)
C2_TableFloorThreshold ==
    \A v \in DOMAIN views : LaidOut(v) =>
        /\ EachOnce(TableFiles(v))
        /\ Range(TableFiles(v)) =
              {d \in DOMAIN objs :
                  ShownFloor(views[v].root_directory, views[v].resolution, d)}

(* A finished layout that shows a child smaller than R.size / r (it      *)
(* reaches the floor) and has pruned another object of the tree.         *)
C2_Witness ==
    \E v \in DOMAIN views :
        /\ LaidOut(v)
        /\ \E d \in Range(TableFiles(v)) :
              objs[d].size * views[v].resolution < objs[views[v].root_directory].size
        /\ \E d \in Subtree(objs, views[v].root_directory) :
              d \notin Range(TableFiles(v))

EligibleSet(v, n) == {c \in Range(objs[n].children) : objs[c].size >= views[v].minsize}

PrunedSet(v, n) == Range(objs[n].children) \ EligibleSet(v, n)

(* The sizes handed to squarify are each child's share of rect by        *)
(* child.size / node.size, and do not exceed rect in total.              *)
TargetAreas(c) ==
    /\ DOMAIN c.sizes = DOMAIN c.children
    /\ \A j \in DOMAIN c.children :
          c.sizes[j][1] * (objs[c.file].size * c.rect[2])
              = c.sizes[j][2] * (objs[c.children[j]].size * c.rect[1])
    /\ frac_leq(frac_sum(c.sizes), c.rect)

CallsOf(v, n, rect) ==
    {c \in Range(views[v].squarify_calls) :
        c.file = n /\ c.rect = rect /\ Range(c.children) = EligibleSet(v, n)}

(* C9 as stated, for the objects of size > 0: the target areas are the   *)
(* children's shares of rect, sum to at most area(rect), and sum to      *)
(* area(rect) only when no child of the object was pruned.               *)
C9_FullOnlyIfNonePruned ==
    \A v \in DOMAIN views : \A i \in DOMAIN views[v].patch_dict :
        LET n == views[v].patch_dict[i].file
            rect == views[v].patch_dict[i].rect
        IN (EligibleSet(v, n) # {} /\ objs[n].size > 0) =>
              \E c \in CallsOf(v, n, rect) :
                  /\ TargetAreas(c)
                  /\ frac_sum(c.sizes) = c.rect => PrunedSet(v, n) = {}

(* C9 amended: a draw of an object with an eligible child either finds   *)
(* the object's size 0 and raises ZeroDivisionError before any area is   *)
(* handed on, or hands on the children's shares of rect, which sum to at *)
(* most area(rect), and to area(rect) only when every pruned child of    *)
(* the object has size 0.                                                *)
C9_FullOnlyIfPrunedEmpty ==
    \A v \in DOMAIN views : \A i \in DOMAIN views[v].patch_dict :
        LET n == views[v].patch_dict[i].file
            rect == views[v].patch_dict[i].rect
        IN EligibleSet(v, n) # {} =>
              IF objs[n].size = 0
              THEN /\ error = "ZeroDivisionError"
                   /\ \A c \in Range(views[v].squarify_calls) : c.file # n
              ELSE \E c \in CallsOf(v, n, rect) :
                      /\ TargetAreas(c)
                      /\ frac_sum(c.sizes) = c.rect =>
                            \A p \in PrunedSet(v, n) : objs[p].size = 0

(* A call of squarify with two areas that fall short of rect because a   *)
(* child of size > 0 was pruned.                                         *)
C9_Witness ==
    \E v \in DOMAIN views : \E c \in Range(views[v].squarify_calls) :
        /\ Len(c.sizes) >= 2
        /\ TargetAreas(c)
        /\ frac_sum(c.sizes) # c.rect
        /\ \E p \in PrunedSet(v, c.file) : objs[p].size > 0

(* C10: no draw divides by a size of 0 or hands squarify an area of 0:   *)
(* a drawn object with an eligible child has size > 0, and so has every  *)
(* eligible child.                                                       *)
C10_PositiveAreas ==
    /\ error = "none"
    /\ \A v \in DOMAIN views : \A i \in DOMAIN views[v].patch_dict :
          LET n == views[v].patch_dict[i].file
          IN EligibleSet(v, n) # {} =>
                /\ objs[n].size > 0
                /\ \A c \in EligibleSet(v, n) : objs[c].size > 0

(* ================= properties: picks, ticks and colors ================= *)
PathLen(e) == Len(objs[e.object].path)

(* What ontime shows and opens for the entry e of view v's click list. *)
ResolvedAs(v, e) ==
    /\ views'[v].title = objs[e.object].label
    /\ IF e.button = DrillButton
       THEN /\ Len(views') = Len(views) + 1
            /\ views'[Len(views')].root_directory = e.object
            /\ browsers' = browsers
       ELSE IF e.button = BrowseButton
       THEN /\ Len(views') = Len(views)
            /\ browsers' = Append(browsers, e.object)
       ELSE Len(views') = Len(views) /\ browsers' = browsers

(* C3: a tick of a view with a non-empty click list resolves to an entry  *)
(* whose path is as long as any in the list, whatever the order of the   *)
(* picks, and leaves the list empty; a tick with an empty list changes   *)
(* nothing.                                                              *)
C3_TickResolvesLongest ==
    [][\A v \in DOMAIN views : ontime(v) =>
          LET q == views[v].click_list
          IN IF q = <<>>
             THEN vars' = vars
             ELSE /\ views'[v].click_list = <<>>
                  /\ \E i \in DOMAIN q :
                        /\ \A j \in DOMAIN q : PathLen(q[j]) <= PathLen(q[i])
                        /\ ResolvedAs(v, q[i])]_vars

(* A tick has just resolved a list of two picks, the shorter path picked *)
(* first: the list is empty and the title is the longer path's label.    *)
C3_Witness ==
    \E v \in DOMAIN views :
        /\ Len(taken) = 2
        /\ PathLen(taken[1]) < PathLen(taken[2])
        /\ taken[1].button # taken[2].button
        /\ views[v].click_list = <<>>
        /\ views[v].title = objs[taken[2].object].label
        /\ picked = 2

(* C4: a click list changes only by one pick being appended or by a tick *)
(* of its view taking the whole list (taken), and a tick of a non-empty  *)
(* list always takes it: no pick is dropped unresolved and none is       *)
(* resolved twice.  A step opens at most one nested view.  All of this also while *)
(* an ontime is waiting in frames for the view it opened.                *)
C4_PicksResolvedOnce ==
    [][/\ \A v \in DOMAIN views :
            LET q == views[v].click_list
                q2 == views'[v].click_list
            IN /\ \/ q2 = q
                  \/ /\ Len(q2) = Len(q) + 1
                     /\ SubSeq(q2, 1, Len(q)) = q
                     /\ picked' = picked + 1
                  \/ q # <<>> /\ q2 = <<>> /\ ontime(v) /\ taken' = q
               /\ (ontime(v) /\ q # <<>>) => q2 = <<>>
       /\ Len(frames') <= Len(frames) + 1
       /\ (Len(views') + Len(browsers')) - (Len(views) + Len(browsers)) \in {0, 1}
       /\ \A v \in DOMAIN views' : v \notin DOMAIN views => views'[v].click_list = <<>>
      ]_vars

(* Two calls of ontime of the same view are waiting at once: the second  *)
(* tick came, and resolved a later pick, while the view opened by the    *)
(* first had not returned.                                               *)
C4_Witness ==
    /\ pending = <<>>
    /\ picked = 2
    /\ \E i, j \in DOMAIN frames : i < j /\ frames[i].view = frames[j].view
    /\ \A v \in DOMAIN views : views[v].click_list = <<>>

(* C5: the colors mapping only grows: a key keeps its color for ever, the *)
(* directory key keeps its gray, and every rectangle of every view has   *)
(* the color the mapping holds for its object's extension.               *)
C5_ColorsOnlyGrow ==
    /\ [](colors[DIR] = Gray)
    /\ [](\A v \in DOMAIN views : \A i \in DOMAIN views[v].patch_dict :
             LET p == views[v].patch_dict[i]
             IN /\ objs[p.file].extension \in DOMAIN colors
                /\ p.facecolor = colors[objs[p.file].extension])
    /\ [][\A k \in DOMAIN colors : k \in DOMAIN colors' /\ colors'[k] = colors[k]]_vars

(* Two views, the second a drill-down, each with a rectangle of a file   *)
(* extension, both in the one color drawn for it.                        *)
C5_Witness ==
    /\ Len(views) = 2
    /\ pending = <<>>
    /\ \E i \in DOMAIN views[1].patch_dict, j \in DOMAIN views[2].patch_dict :
          /\ objs[views[1].patch_dict[i].file].extension = <<"b">>
          /\ objs[views[2].patch_dict[j].file].extension = <<"b">>
          /\ views[1].patch_dict[i].facecolor = <<255, 128, 0>>
          /\ views[2].patch_dict[j].facecolor = <<255, 128, 0>>

(* ===================== properties: the extension ======================= *)
Lowered(s) == [i \in DOMAIN s |-> IF s[i] = "B" THEN "b" ELSE s[i]]

(* The 1-based position of the last '.' of s, 0 when s has none. *)
LastDot(s) ==
    IF \E i \in DOMAIN s : s[i] = "."
    THEN CHOOSE i \in DOMAIN s :
            s[i] = "." /\ \A j \in DOMAIN s : j > i => s[j] # "."
    ELSE 0

====
